---- MODULE Spec2Model ----
(***************************************************************************)
(* Model of the voice-session controller of FeO: the AudioPlayer of        *)
(* src/audio/player.rs (queue, connection, idle countdown, track-end and   *)
(* client-disconnect callback) driven by the command table of              *)
(* src/commands.rs (Parser::process).                                      *)
(*                                                                         *)
(* Two locks exist in the code: the player lock (Arc<Mutex<AudioPlayer>>)  *)
(* taken by Parser::process, by TrackEndCallback::act and by the countdown *)
(* task, and the call lock (Arc<Mutex<Call>>) taken for short sections     *)
(* inside them.  The call lock is only ever requested by a holder of the   *)
(* player lock, so every call-lock section is part of the step that        *)
(* contains it.  The songbird driver (a track that ends, the queue's own   *)
(* end-of-track handler) takes neither lock and interleaves freely.        *)
(***************************************************************************)
EXTENDS Integers, Sequences, FiniteSets, TLC

\* ---- bounds of the model ----
NumCmds == 2        \* command handlers that may run concurrently
MaxQueue == 2       \* tracks that may be queued or in flight at once
MaxTasks == 2       \* countdown task slots
NumChannels == 2    \* voice channels of the guild
MaxHumans == 1      \* human members per voice channel
MaxPending == 1     \* undelivered events of each kind
MaxArgs == 2        \* URLs of one queue command

Cmds == 1..NumCmds
Tasks == 1..MaxTasks
Channels == 1..NumChannels
TrackIds == 1..MaxQueue
NoChannel == 0      \* call.current_connection() = None
NoHandle == 0       \* timeout_handle = None
NoOwner == 0        \* player lock not held

VARIABLES
    playerLock,            \* holder of Arc<Mutex<AudioPlayer>> (a command) or NoOwner
    idle_callback_action,  \* "TIMEOUT" or "LEAVE"
    timeout_handle,        \* the task the stored JoinHandle refers to, or NoHandle
    task,                  \* countdown task slot -> "dead" | "sleeping" (sleep, then wait for the lock)
    chan,                  \* channel the call is connected to, or NoChannel
    humans,                \* channel -> number of human members
    queue,                 \* the call's track queue: <<[id, mode]>>, head = current
    pendingTE,             \* Track(End) events not yet picked up by the callback
    pendingDC,             \* ClientDisconnect events not yet picked up
    dcpc,                  \* disconnect callback: "idle" | "sleep" | "hangup"
    dcChan,                \* channel id the disconnect callback read before its sleep
    cmd,                   \* command handler -> [op, fn, pc, n, tracks, idx, len]
    last                   \* outcome of the step just taken: "none", <command>_<result>, or the
                           \* supervisor's (callback, countdown) tag

vars == <<playerLock, idle_callback_action, timeout_handle, task, chan, humans,
          queue, pendingTE, pendingDC, dcpc, dcChan, cmd>>

supervisorVars == <<idle_callback_action, timeout_handle, task>>
eventVars == <<pendingDC, dcpc, dcChan>>

\* ---- small helpers ----
\* seen and sup are history: the ids of the queue when rm or goto read its length,
\* and the supervisor state a play or driveby found when it took the lock
NoSup == [action |-> "none", live |-> {}]
IdleCmd == [op |-> "none", fn |-> "none", pc |-> "idle", n |-> 0, tracks |-> <<>>,
            idx |-> {}, len |-> 0, seen |-> <<>>, sup |-> NoSup]

Live(tk) == {t \in Tasks : tk[t] = "sleeping"}

\* channel.members(cache).len(): the humans of the channel, plus the bot when it is there
Members(ch) == humans[ch] + (IF chan = ch THEN 1 ELSE 0)

\* the tracks of a queue by their ids, in order
Ids(q) == [i \in 1..Len(q) |-> q[i].id]
IdSet(q) == {q[i].id : i \in 1..Len(q)}

\* ---- the songbird TrackQueue, as the code uses it ----
Track(i, m) == [id |-> i, mode |-> m]

SetMode(q, i, m) == [q EXCEPT ![i] = Track(q[i].id, m)]

QEnqueue_Front(q, i) == IF q = <<>> THEN <<Track(i, "play")>> ELSE <<Track(i, "pause")>> \o q

\* call.enqueue(track): a track added to an empty queue starts playing, any other waits paused
QEnqueue(q, i) == IF q = <<>> THEN <<Track(i, "play")>> ELSE Append(q, Track(i, "pause"))

\* queue.pause() / queue.resume(): act on the current track; an ended track refuses the command
QCanControl(q) == q = <<>> \/ Head(q).mode # "end"
QPause(q) == IF q = <<>> THEN q ELSE SetMode(q, 1, "pause")
QResume(q) == IF q = <<>> THEN q ELSE SetMode(q, 1, "play")

MoveBackToFront_Stay(q) == q

\* modify_queue(|q| { let t = q.pop_back().unwrap(); q.push_front(t); })
MoveBackToFront(q) == <<q[Len(q)]>> \o SubSeq(q, 1, Len(q) - 1)

\* for track in tracks { call.enqueue(track) }
RECURSIVE EnqueueAll(_, _)
EnqueueAll(q, ids) == IF ids = <<>> THEN q ELSE EnqueueAll(QEnqueue(q, Head(ids)), Tail(ids))

InsertSecond_Stay(q) == q

\* modify_queue(|q| { let t = q.pop_back().unwrap(); q.insert(1, t); }) on two or more tracks
InsertSecond(q) == <<q[1], q[Len(q)]>> \o SubSeq(q, 2, Len(q) - 1)

clear_queue_All(q) == <<>>

\* clear_queue: q.drain(1..)
clear_queue(q) == <<Head(q)>>

\* ids of the tracks that are queued or resolved and not yet queued
UsedIds == {queue[i].id : i \in 1..Len(queue)}
             \cup UNION {{cmd[c].tracks[i] : i \in 1..Len(cmd[c].tracks)} : c \in Cmds}
FreshId == CHOOSE i \in TrackIds : i \notin UsedIds /\ \A j \in TrackIds : j < i => j \in UsedIds

\* ---- the player lock ----
PlayerLockFree_NoMutex == TRUE

\* self.audio_player.lock().await returns only when nobody holds the lock
PlayerLockFree == playerLock = NoOwner

\* ---- the idle countdown ----
AbortHandle_Overwrite(tk, h) == tk

\* handle.abort(): a task that sleeps or waits for the player lock is cancelled there
AbortHandle(tk, h) ==
    IF h # NoHandle THEN [tk EXCEPT ![h] = "dead"] ELSE tk

\* tokio::spawn: the new task takes a free slot
FreeSlot(tk) == CHOOSE t \in Tasks : tk[t] = "dead" /\ \A u \in Tasks : u < t => tk[u] # "dead"

\* AudioPlayer::cancel_timeout
cancel_timeout ==
    /\ task' = AbortHandle(task, timeout_handle)
    /\ timeout_handle' = NoHandle

\* AudioPlayer::hangup: stop the queue, leave the call when connected.
\* ok: the result of call.leave(); ch: the connection it leaves behind;
\* ev: the driver reports the end of the stopped tracks.
\* pending: the Track(End) events that wait when hangup is called.
HangupOutcomes(pending) ==
    {o \in [ok : BOOLEAN, ch : {NoChannel} \cup Channels, ev : BOOLEAN] :
        /\ (chan = NoChannel => o.ok /\ o.ch = NoChannel)
        /\ (o.ok => o.ch = NoChannel)
        /\ (~o.ok => o.ch \in {NoChannel, chan})
        /\ (o.ev => queue # <<>> /\ pending < MaxPending)}

hangup_KeepQueue(o, pending) ==
    /\ queue' = queue
    /\ chan' = o.ch
    /\ pendingTE' = IF o.ev THEN pending + 1 ELSE pending

hangup(o, pending) ==
    /\ queue' = <<>>
    /\ chan' = o.ch
    /\ pendingTE' = IF o.ev THEN pending + 1 ELSE pending

\* AudioPlayer::shutdown
shutdown(o, pending) ==
    /\ cancel_timeout
    /\ hangup(o, pending)

\* the countdown task's test at expiry: shut down when the queue is empty or
\* the state of the current track cannot be read (it has ended)
ExpiryShutsDown(q) == q = <<>> \/ Head(q).mode = "end"

Init ==
    /\ playerLock = NoOwner
    /\ idle_callback_action = "TIMEOUT"
    /\ timeout_handle = NoHandle
    /\ task = [t \in Tasks |-> "dead"]
    /\ chan = NoChannel
    /\ humans \in [Channels -> 0..MaxHumans]
    /\ queue = <<>>
    /\ pendingTE = 0
    /\ pendingDC = 0
    /\ dcpc = "idle"
    /\ dcChan = NoChannel
    /\ cmd = [c \in Cmds |-> IdleCmd]
    /\ last = "none"

\* ---- the environment: members and the songbird driver ----
HumanJoin(ch) ==
    /\ humans[ch] < MaxHumans
    /\ humans' = [humans EXCEPT ![ch] = @ + 1]
    /\ last' = "none"
    /\ UNCHANGED <<playerLock, supervisorVars, chan, queue, pendingTE, eventVars, cmd>>

\* a member leaves; the call reports ClientDisconnect for the channel the bot is in
HumanLeave(ch) ==
    /\ humans[ch] > 0
    /\ chan = ch => pendingDC < MaxPending
    /\ humans' = [humans EXCEPT ![ch] = @ - 1]
    /\ pendingDC' = IF chan = ch THEN pendingDC + 1 ELSE pendingDC
    /\ last' = "none"
    /\ UNCHANGED <<playerLock, supervisorVars, chan, queue, pendingTE, dcpc, dcChan, cmd>>

\* the current track plays to its end: Track(End) is raised
NaturalEnd ==
    /\ queue # <<>>
    /\ Head(queue).mode = "play"
    /\ pendingTE < MaxPending
    /\ queue' = SetMode(queue, 1, "end")
    /\ pendingTE' = pendingTE + 1
    /\ last' = "none"
    /\ UNCHANGED <<playerLock, supervisorVars, chan, humans, eventVars, cmd>>

\* the queue's own end-of-track handler drops the ended track and plays the next
DriverPop ==
    /\ queue # <<>>
    /\ Head(queue).mode = "end"
    /\ queue' = QResume(Tail(queue))
    /\ last' = "none"
    /\ UNCHANGED <<playerLock, supervisorVars, chan, humans, pendingTE, eventVars, cmd>>

\* ---- TrackEndCallback::act, Track branch ----
\* TIMEOUT: abort the stored handle, spawn the countdown, store its handle
TrackEndTimeout ==
    /\ pendingTE > 0
    /\ PlayerLockFree
    /\ idle_callback_action = "TIMEOUT"
    /\ LET tk == AbortHandle(task, timeout_handle)
       IN /\ \E t \in Tasks : tk[t] = "dead"
          /\ task' = [tk EXCEPT ![FreeSlot(tk)] = "sleeping"]
          /\ timeout_handle' = FreeSlot(tk)
    /\ pendingTE' = pendingTE - 1
    /\ last' = IF Live(task) # {} THEN "te_replace" ELSE "te_timeout"
    /\ UNCHANGED <<playerLock, idle_callback_action, chan, humans, queue, eventVars, cmd>>

\* LEAVE: player.shutdown().unwrap()
TrackEndLeave ==
    /\ pendingTE > 0
    /\ PlayerLockFree
    /\ idle_callback_action = "LEAVE"
    /\ \E o \in HangupOutcomes(pendingTE - 1) :
          /\ shutdown(o, pendingTE - 1)
          /\ last' = IF o.ok THEN "te_leave" ELSE "te_leave_panic"
    /\ UNCHANGED <<playerLock, idle_callback_action, humans, eventVars, cmd>>

\* ---- the countdown task spawned by the TIMEOUT branch ----
\* sleep(timeout), player lock, then the test of the queue
CountdownExpire(t) ==
    /\ task[t] = "sleeping"
    /\ PlayerLockFree
    /\ IF ExpiryShutsDown(queue)
       THEN \E o \in HangupOutcomes(pendingTE) :
               /\ hangup(o, pendingTE)
               /\ task' = [AbortHandle(task, timeout_handle) EXCEPT ![t] = "dead"]
               /\ timeout_handle' = NoHandle
               /\ last' = IF o.ok THEN "expiry_shutdown" ELSE "expiry_shutdown_panic"
       ELSE /\ task' = [task EXCEPT ![t] = "dead"]
            /\ last' = "expiry_noop"
            /\ UNCHANGED <<timeout_handle, chan, queue, pendingTE>>
    /\ UNCHANGED <<playerLock, idle_callback_action, humans, eventVars, cmd>>

\* ---- TrackEndCallback::act, ClientDisconnect branch ----
\* call.current_channel().unwrap() under the player lock
DisconnectRead ==
    /\ dcpc = "idle"
    /\ pendingDC > 0
    /\ PlayerLockFree
    /\ pendingDC' = pendingDC - 1
    /\ IF chan = NoChannel
       THEN /\ last' = "dc_panic"
            /\ UNCHANGED <<dcpc, dcChan>>
       ELSE /\ dcpc' = "sleep"
            /\ dcChan' = chan
            /\ last' = "none"
    /\ UNCHANGED <<playerLock, supervisorVars, chan, humans, queue, pendingTE, cmd>>

\* after the 250 ms sleep: c.members(cache).len() > 1
DisconnectRecount ==
    /\ dcpc = "sleep"
    /\ IF Members(dcChan) > 1
       THEN /\ dcpc' = "idle"
            /\ last' = "dc_stay"
       ELSE /\ dcpc' = "hangup"
            /\ last' = "none"
    /\ dcChan' = NoChannel
    /\ UNCHANGED <<playerLock, supervisorVars, chan, humans, queue, pendingTE, pendingDC, cmd>>

\* player lock again, player.hangup().unwrap()
DisconnectHangup ==
    /\ dcpc = "hangup"
    /\ PlayerLockFree
    /\ \E o \in HangupOutcomes(pendingTE) :
          /\ hangup(o, pendingTE)
          /\ last' = IF o.ok THEN "dc_hangup" ELSE "dc_hangup_panic"
    /\ dcpc' = "idle"
    /\ UNCHANGED <<playerLock, supervisorVars, humans, pendingDC, dcChan, cmd>>

\* ---- Parser::process: one handler per incoming message ----
EnqueueOps == {"play", "driveby", "queue", "next"}
SimpleOps == {"pause", "resume", "skip", "stop", "clear", "leave", "list"}
ArgCounts(op) == IF op \in {"queue", "next"} THEN 1..MaxArgs ELSE {1}
IndexSets == SUBSET (0..MaxQueue) \ {{}}

FirstStep(op) ==
    CASE op \in {"play", "driveby"} -> "cancel"
      [] op = "queue" -> "resolve"
      [] op = "next" -> "peek"
      [] op = "rm" -> "rm_len"
      [] op = "goto" -> "goto_len"
      [] OTHER -> "simple"

\* a message is received and matched (op, with n arguments or the index set idx);
\* let locked_player = self.audio_player.lock().await: its arm starts under the lock
Acquire(c, op, n, idx) ==
    /\ cmd[c].pc = "idle"
    /\ PlayerLockFree
    /\ op \in EnqueueOps => Len(queue) + (IF op = "queue" THEN n ELSE 1) <= MaxQueue
    /\ playerLock' = c
    /\ cmd' = [cmd EXCEPT ![c] =
                  [IdleCmd EXCEPT !.op = op, !.fn = op, !.pc = FirstStep(op), !.n = n, !.idx = idx,
                                  !.sup = IF op \in {"play", "driveby"}
                                          THEN [action |-> idle_callback_action,
                                                live |-> Live(task)]
                                          ELSE NoSup]]
    /\ last' = "none"
    /\ UNCHANGED <<supervisorVars, chan, humans, queue, pendingTE, eventVars>>

\* the handler returns (Ok, Err or a panic): the player lock guard is dropped
Return(c, result) ==
    /\ playerLock' = NoOwner
    /\ cmd' = [cmd EXCEPT ![c] = IdleCmd]
    /\ last' = cmd[c].op \o "_" \o result

\* the handler goes on under the lock
Continue == playerLock' = playerLock /\ last' = "none"

Goto(c, pc) == cmd' = [cmd EXCEPT ![c].pc = pc]

\* process_play / process_driveby: argument count, then cancel_timeout
CancelFirst(c) ==
    /\ cmd[c].pc = "cancel"
    /\ IF cmd[c].n > 1
       THEN /\ Return(c, "err_args")
            /\ UNCHANGED supervisorVars
       ELSE /\ cancel_timeout
            /\ Goto(c, "resolve")
            /\ Continue
            /\ UNCHANGED idle_callback_action
    /\ UNCHANGED <<chan, humans, queue, pendingTE, eventVars>>

Resolve_Joined(c) ==
    /\ cmd[c].pc = "resolve"
    /\ \E ch \in Channels : chan' = ch
    /\ Return(c, "err_resolve")
    /\ UNCHANGED <<supervisorVars, humans, queue, pendingTE, eventVars>>

\* make_ytdl_track(url).await, and what each handler does right after it
Resolve(c) ==
    /\ cmd[c].pc = "resolve"
    /\ \E ok \in {TRUE, FALSE} :
          IF ~ok \/ UsedIds = TrackIds
          THEN /\ ~ok
               /\ Return(c, "err_resolve")
               /\ UNCHANGED idle_callback_action
          ELSE LET tr == Append(cmd[c].tracks, FreshId)
                   full == cmd[c].fn # "queue" \/ Len(tr) = cmd[c].n
                   pc == CASE ~full -> "resolve"
                           [] full /\ cmd[c].fn \in {"play", "queue"} -> "join_summoner"
                           [] full /\ cmd[c].fn = "driveby" -> "join_crowded"
                           [] full /\ cmd[c].fn = "next" -> "insert_next"
               IN /\ cmd' = [cmd EXCEPT ![c].tracks = tr, ![c].pc = pc]
                  /\ idle_callback_action' =
                        IF cmd[c].fn = "play" THEN "TIMEOUT" ELSE idle_callback_action
                  /\ Continue
    /\ UNCHANGED <<timeout_handle, task, chan, humans, queue, pendingTE, eventVars>>

\* join_channel: call.join(channel).await; a failed join may drop the connection
JoinOutcomes(ch) == {<<TRUE, ch>>, <<FALSE, chan>>, <<FALSE, NoChannel>>}

\* the voice channel the author of the message is in, if any
SummonerChannels == {NoChannel} \cup {ch \in Channels : humans[ch] > 0}

\* join_summoner, then (process_enqueue) set_idle_check(TIMEOUT) and enqueue every track
JoinSummoner(c) ==
    /\ cmd[c].pc = "join_summoner"
    /\ \E sc \in SummonerChannels :
          IF sc = NoChannel
          THEN /\ Return(c, "err_summoner")
               /\ UNCHANGED <<chan, queue, idle_callback_action>>
          ELSE \E j \in JoinOutcomes(sc) :
                  /\ chan' = j[2]
                  /\ IF ~j[1]
                     THEN /\ Return(c, "err_join")
                          /\ UNCHANGED <<queue, idle_callback_action>>
                     ELSE IF cmd[c].fn = "play"
                     THEN /\ Goto(c, "pot_enqueue")
                          /\ Continue
                          /\ UNCHANGED <<queue, idle_callback_action>>
                     ELSE /\ idle_callback_action' = "TIMEOUT"
                          /\ queue' = EnqueueAll(queue, cmd[c].tracks)
                          /\ Return(c, "ok")
    /\ UNCHANGED <<timeout_handle, task, humans, pendingTE, eventVars>>

\* the channels join_most_crowded may find first after its stable sort
MostCrowded == {ch \in Channels : \A d \in Channels : Members(d) <= Members(ch)}

\* join_most_crowded, then set_idle_check(LEAVE)
JoinCrowded(c) ==
    /\ cmd[c].pc = "join_crowded"
    /\ \E ch \in MostCrowded :
          IF Members(ch) = 0
          THEN /\ Return(c, "err_nobody")
               /\ UNCHANGED <<chan, idle_callback_action>>
          ELSE \E j \in JoinOutcomes(ch) :
                  /\ chan' = j[2]
                  /\ IF ~j[1]
                     THEN /\ Return(c, "err_join")
                          /\ UNCHANGED idle_callback_action
                     ELSE /\ idle_callback_action' = "LEAVE"
                          /\ Goto(c, "pot_enqueue")
                          /\ Continue
    /\ UNCHANGED <<timeout_handle, task, humans, queue, pendingTE, eventVars>>

\* what follows play_only_track in process_play and in process_driveby
AfterPlay(c) ==
    IF cmd[c].fn = "driveby"
    THEN /\ cmd' = [cmd EXCEPT ![c].pc = "drv_clear", ![c].tracks = <<>>]
         /\ Continue
    ELSE Return(c, "ok")

\* play_only_track: call.enqueue(track); more than one element: pause; else resume
PlayEnqueue(c) ==
    /\ cmd[c].pc = "pot_enqueue"
    /\ LET q == QEnqueue(queue, cmd[c].tracks[1])
       IN IF Len(q) > 1
          THEN IF QCanControl(q)
               THEN /\ queue' = QPause(q)
                    /\ cmd' = [cmd EXCEPT ![c].pc = "pot_cancel", ![c].tracks = <<>>]
                    /\ Continue
               ELSE /\ queue' = q
                    /\ Return(c, "err_pause")
          ELSE /\ queue' = QResume(q)
               /\ AfterPlay(c)
    /\ UNCHANGED <<supervisorVars, chan, humans, pendingTE, eventVars>>

\* play_only_track: drop(call); self.cancel_timeout()
PlayCancel(c) ==
    /\ cmd[c].pc = "pot_cancel"
    /\ cancel_timeout
    /\ Goto(c, "pot_front")
    /\ Continue
    /\ UNCHANGED <<idle_callback_action, chan, humans, queue, pendingTE, eventVars>>

\* play_only_track: move the new track to the front, queue.resume()
PlayFront(c) ==
    /\ cmd[c].pc = "pot_front"
    /\ queue' = QResume(MoveBackToFront(queue))
    /\ AfterPlay(c)
    /\ UNCHANGED <<supervisorVars, chan, humans, pendingTE, eventVars>>

\* process_driveby: clear_queue_locking
DrivebyClear(c) ==
    /\ cmd[c].pc = "drv_clear"
    /\ IF queue = <<>>
       THEN /\ Return(c, "err_empty")
            /\ UNCHANGED queue
       ELSE /\ queue' = clear_queue(queue)
            /\ Return(c, "ok")
    /\ UNCHANGED <<supervisorVars, chan, humans, pendingTE, eventVars>>

\* process_next: an empty queue hands the command to process_play
NextPeek(c) ==
    /\ cmd[c].pc = "peek"
    /\ IF queue = <<>>
       THEN cmd' = [cmd EXCEPT ![c].fn = "play", ![c].pc = "cancel"]
       ELSE Goto(c, "resolve")
    /\ Continue
    /\ UNCHANGED <<supervisorVars, chan, humans, queue, pendingTE, eventVars>>

\* process_next: call.enqueue(t); pop_back and insert(1, ..), which panics on an empty deque
NextInsert(c) ==
    /\ cmd[c].pc = "insert_next"
    /\ LET q == QEnqueue(queue, cmd[c].tracks[1])
       IN IF Len(q) = 1
          THEN /\ queue' = <<>>
               /\ Return(c, "panic")
          ELSE /\ queue' = InsertSecond(q)
               /\ Return(c, "ok")
    /\ UNCHANGED <<supervisorVars, chan, humans, pendingTE, eventVars>>

\* process_rm: read the queue length, check every index against [1, len-1]
RmValidate(c) ==
    /\ cmd[c].pc = "rm_len"
    /\ IF queue = <<>>
       THEN Return(c, "err_empty")
       ELSE IF \E i \in cmd[c].idx : i > Len(queue) - 1 \/ i < 1
       THEN Return(c, "err_index")
       ELSE /\ cmd' = [cmd EXCEPT ![c].pc = "rm_remove", ![c].len = Len(queue),
                                ![c].seen = Ids(queue)]
            /\ Continue
    /\ UNCHANGED <<supervisorVars, chan, humans, queue, pendingTE, eventVars>>

RmMatched_OneBased(q, idx) == {i \in 1..Len(q) : i \in idx}

\* positions (counted from 0) that the removal closure matches in the queue it finds
RmMatched(q, idx) == {i \in 1..Len(q) : (i - 1) \in idx}

\* q.retain(..): the tracks at the matched positions are dropped, the rest keep their order
RECURSIVE RemoveAt(_, _, _)
RemoveAt(q, S, i) ==
    IF i > Len(q) THEN <<>>
    ELSE (IF i \in S THEN <<>> ELSE <<q[i]>>) \o RemoveAt(q, S, i + 1)

\* process_rm: stop and remove the matched tracks; stopping a track that already
\* ended fails, and then nothing is removed
RmRemove(c) ==
    /\ cmd[c].pc = "rm_remove"
    /\ LET S == RmMatched(queue, cmd[c].idx)
       IN IF \E i \in S : queue[i].mode = "end"
          THEN /\ Return(c, "err_stop")
               /\ UNCHANGED <<queue, pendingTE>>
          ELSE \E ev \in BOOLEAN :
                  /\ ev => S # {} /\ pendingTE < MaxPending
                  /\ queue' = RemoveAt(queue, S, 1)
                  /\ pendingTE' = IF ev THEN pendingTE + 1 ELSE pendingTE
                  /\ Return(c, "ok")
    /\ UNCHANGED <<supervisorVars, chan, humans, eventVars>>

GotoValid_NoUpper(q, k) == k >= 1 /\ q # <<>>

\* process_goto: idx < 1, playlist_len == 0, idx > playlist_len - 1
GotoValid(q, k) == k >= 1 /\ q # <<>> /\ k <= Len(q) - 1

GotoPop_Index(q, k) == SubSeq(q, k, Len(q))

\* process_goto: for _ in 0..idx { q.pop_front() }
GotoPop(q, k) == SubSeq(q, k + 1, Len(q))

\* process_goto: idx < 1, then the queue length is read and idx checked against it
GotoValidate(c) ==
    /\ cmd[c].pc = "goto_len"
    /\ IF cmd[c].n < 1
       THEN Return(c, "err_zero")
       ELSE IF queue = <<>>
       THEN Return(c, "err_empty")
       ELSE IF cmd[c].n > Len(queue) - 1
       THEN Return(c, "err_index")
       ELSE /\ cmd' = [cmd EXCEPT ![c].pc = "goto_pop", ![c].len = Len(queue),
                                ![c].seen = Ids(queue)]
            /\ Continue
    /\ UNCHANGED <<supervisorVars, chan, humans, queue, pendingTE, eventVars>>

\* process_goto: current().stop(), idx times pop_front and stop, queue.resume().
\* A current track that has ended refuses the stop; the second stop of the
\* current track (after its pop) fails when the driver has dropped it already.
GotoStopPop(c) ==
    /\ cmd[c].pc = "goto_pop"
    /\ IF queue # <<>> /\ Head(queue).mode = "end"
       THEN /\ Return(c, "err_stop")
            /\ UNCHANGED <<queue, pendingTE>>
       ELSE \E raced \in BOOLEAN, ev \in BOOLEAN :
               /\ (raced \/ ev) => queue # <<>>
               /\ ev => pendingTE < MaxPending
               /\ queue' = IF raced THEN Tail(queue) ELSE QResume(GotoPop(queue, cmd[c].n))
               /\ pendingTE' = IF ev THEN pendingTE + 1 ELSE pendingTE
               /\ Return(c, IF raced THEN "err_stop_pop" ELSE "ok")
    /\ UNCHANGED <<supervisorVars, chan, humans, eventVars>>

\* pause_locking / resume_locking
CmdPause(c) ==
    /\ cmd[c].pc = "simple" /\ cmd[c].op = "pause"
    /\ IF QCanControl(queue)
       THEN queue' = QPause(queue) /\ Return(c, "ok")
       ELSE UNCHANGED queue /\ Return(c, "err")
    /\ UNCHANGED <<supervisorVars, chan, humans, pendingTE, eventVars>>

CmdResume(c) ==
    /\ cmd[c].pc = "simple" /\ cmd[c].op = "resume"
    /\ IF QCanControl(queue)
       THEN queue' = QResume(queue) /\ Return(c, "ok")
       ELSE UNCHANGED queue /\ Return(c, "err")
    /\ UNCHANGED <<supervisorVars, chan, humans, pendingTE, eventVars>>

\* skip_locking: queue.skip() stops the current track; the driver then reports its end
CmdSkip(c) ==
    /\ cmd[c].pc = "simple" /\ cmd[c].op = "skip"
    /\ IF queue = <<>>
       THEN UNCHANGED <<queue, pendingTE>> /\ Return(c, "ok")
       ELSE IF Head(queue).mode = "end"
       THEN UNCHANGED <<queue, pendingTE>> /\ Return(c, "err")
       ELSE /\ pendingTE < MaxPending
            /\ queue' = SetMode(queue, 1, "end")
            /\ pendingTE' = pendingTE + 1
            /\ Return(c, "ok")
    /\ UNCHANGED <<supervisorVars, chan, humans, eventVars>>

\* stop_locking: queue.stop() stops every track and empties the queue
CmdStop(c) ==
    /\ cmd[c].pc = "simple" /\ cmd[c].op = "stop"
    /\ \E ev \in BOOLEAN :
          /\ ev => queue # <<>> /\ pendingTE < MaxPending
          /\ queue' = <<>>
          /\ pendingTE' = IF ev THEN pendingTE + 1 ELSE pendingTE
    /\ Return(c, "ok")
    /\ UNCHANGED <<supervisorVars, chan, humans, eventVars>>

\* clear_queue_locking
CmdClear(c) ==
    /\ cmd[c].pc = "simple" /\ cmd[c].op = "clear"
    /\ IF queue = <<>>
       THEN UNCHANGED queue /\ Return(c, "err_empty")
       ELSE queue' = clear_queue(queue) /\ Return(c, "ok")
    /\ UNCHANGED <<supervisorVars, chan, humans, pendingTE, eventVars>>

\* the Leave arm: locked_player.hangup()?
CmdLeave(c) ==
    /\ cmd[c].pc = "simple" /\ cmd[c].op = "leave"
    /\ \E o \in HangupOutcomes(pendingTE) :
          /\ hangup(o, pendingTE)
          /\ Return(c, IF o.ok THEN "ok" ELSE "err")
    /\ UNCHANGED <<supervisorVars, humans, eventVars>>

\* print_queue
CmdList(c) ==
    /\ cmd[c].pc = "simple" /\ cmd[c].op = "list"
    /\ Return(c, IF queue = <<>> THEN "err_empty" ELSE "ok")
    /\ UNCHANGED <<supervisorVars, chan, humans, queue, pendingTE, eventVars>>

Command(c) ==
    \/ \E op \in EnqueueOps \cup SimpleOps : \E n \in ArgCounts(op) : Acquire(c, op, n, {})
    \/ \E idx \in IndexSets : Acquire(c, "rm", Cardinality(idx), idx)
    \/ \E k \in 0..MaxQueue : Acquire(c, "goto", k, {})
    \/ CancelFirst(c)
    \/ Resolve(c)
    \/ JoinSummoner(c)
    \/ JoinCrowded(c)
    \/ PlayEnqueue(c)
    \/ PlayCancel(c)
    \/ PlayFront(c)
    \/ DrivebyClear(c)
    \/ NextPeek(c)
    \/ NextInsert(c)
    \/ RmValidate(c)
    \/ RmRemove(c)
    \/ GotoValidate(c)
    \/ GotoStopPop(c)
    \/ CmdPause(c)
    \/ CmdResume(c)
    \/ CmdSkip(c)
    \/ CmdStop(c)
    \/ CmdClear(c)
    \/ CmdLeave(c)
    \/ CmdList(c)

Environment ==
    \/ \E ch \in Channels : HumanJoin(ch)
    \/ \E ch \in Channels : HumanLeave(ch)
    \/ NaturalEnd
    \/ DriverPop

Supervisor ==
    \/ TrackEndTimeout
    \/ TrackEndLeave
    \/ \E t \in Tasks : CountdownExpire(t)
    \/ DisconnectRead
    \/ DisconnectRecount
    \/ DisconnectHangup

Next ==
    \/ \E c \in Cmds : Command(c)
    \/ Environment
    \/ Supervisor

Spec == Init /\ [][Next]_vars

\* ---- the queue operations, one command at a time ----
\* Every handler below runs from its lock to its return in one step: it is the
\* handler of Parser::process with no other handler and no callback between
\* its sections.  The bot is connected and the author of the messages is in
\* its channel, so joins are no-ops; the driver ends and drops tracks
\* between two commands.  cmd[1] keeps the message just handled: op, n (the
\* number of arguments, the index of goto), idx (the indices of rm), tracks
\* (the tracks resolved for it) and len (the length of the queue it found).
MaxLen == 4         \* tracks in the queue of the sequential specification

QsIds == 1..MaxLen

\* queues the player can hold: any track but the current one waits paused
QsInitQueues ==
    {<<>>} \cup
    {[i \in 1..n |-> Track(i, IF i = 1 THEN m ELSE "pause")] :
        n \in 1..MaxLen, m \in {"play", "pause", "end"}}

\* make_ytdl_track for n URLs in argument order: n tracks that are not queued
RECURSIVE QsFresh(_, _)
QsFresh(U, n) ==
    IF n = 0 THEN <<>>
    ELSE LET m == CHOOSE x \in U : \A y \in U : x <= y
         IN <<m>> \o QsFresh(U \ {m}, n - 1)

QsUnused == QsIds \ {queue[i].id : i \in 1..Len(queue)}

QsFrame == UNCHANGED <<playerLock, supervisorVars, chan, humans, pendingTE, eventVars>>

QsDone(op, n, idx, ids, res) ==
    /\ cmd' = [cmd EXCEPT ![1] = [IdleCmd EXCEPT !.op = op, !.n = n, !.idx = idx,
                                                 !.tracks = ids, !.len = Len(queue)]]
    /\ last' = op \o "_" \o res
    /\ QsFrame

QsInit ==
    /\ playerLock = NoOwner
    /\ idle_callback_action = "TIMEOUT"
    /\ timeout_handle = NoHandle
    /\ task = [t \in Tasks |-> "dead"]
    /\ chan = 1
    /\ humans = [ch \in Channels |-> IF ch = 1 THEN 1 ELSE 0]
    /\ queue \in QsInitQueues
    /\ pendingTE = 0
    /\ pendingDC = 0
    /\ dcpc = "idle"
    /\ dcChan = NoChannel
    /\ cmd = [c \in Cmds |-> IdleCmd]
    /\ last = "none"

\* the current track plays to its end
QsTrackEnd ==
    /\ queue # <<>>
    /\ Head(queue).mode = "play"
    /\ queue' = SetMode(queue, 1, "end")
    /\ last' = "none"
    /\ UNCHANGED cmd
    /\ QsFrame

\* the queue's own end-of-track handler drops the ended track and plays the next
QsDriverPop ==
    /\ queue # <<>>
    /\ Head(queue).mode = "end"
    /\ queue' = QResume(Tail(queue))
    /\ last' = "none"
    /\ UNCHANGED cmd
    /\ QsFrame

\* skip: queue.skip() stops the current track
QSkip(q) == IF q = <<>> THEN q ELSE SetMode(q, 1, "end")

QsSkip ==
    /\ IF queue # <<>> /\ Head(queue).mode = "end"
       THEN UNCHANGED queue /\ QsDone("skip", 0, {}, <<>>, "err")
       ELSE queue' = QSkip(queue) /\ QsDone("skip", 0, {}, <<>>, "ok")

\* k skips, each followed by the driver's drop of the stopped track
RECURSIVE SkipTimes(_, _)
SkipTimes(q, k) == IF k = 0 \/ q = <<>> THEN q ELSE SkipTimes(QResume(Tail(QSkip(q))), k - 1)

\* process_goto.  The current track is stopped twice, by current().stop() and
\* after its pop_front: the second stop fails (raced) when the driver has
\* already dropped the track, and the handler returns with the head popped.
QsGoto(k) ==
    \E raced \in BOOLEAN :
       /\ IF k < 1
          THEN UNCHANGED queue /\ QsDone("goto", k, {}, <<>>, "err_zero")
          ELSE IF queue = <<>>
          THEN UNCHANGED queue /\ QsDone("goto", k, {}, <<>>, "err_empty")
          ELSE IF ~GotoValid(queue, k)
          THEN UNCHANGED queue /\ QsDone("goto", k, {}, <<>>, "err_index")
          ELSE IF Head(queue).mode = "end"
          THEN UNCHANGED queue /\ QsDone("goto", k, {}, <<>>, "err_stop")
          ELSE IF raced
          THEN queue' = Tail(queue) /\ QsDone("goto", k, {}, <<>>, "err_stop_pop")
          ELSE queue' = QResume(GotoPop(queue, k)) /\ QsDone("goto", k, {}, <<>>, "ok")
       /\ (raced => GotoValid(queue, k) /\ Head(queue).mode # "end")

RmIndexOk_NoLower(i, len) == i <= len - 1

\* process_rm: (*ind > playlist_len-1) || (*ind < 1) rejects the index
RmIndexOk(i, len) == ~(i > len - 1 \/ i < 1)

RmValid_Any(idx, len) == \E i \in idx : RmIndexOk(i, len)

\* process_rm: the loop over indices_to_rm returns at the first rejected index
RmValid(idx, len) == \A i \in idx : RmIndexOk(i, len)

\* process_rm
QsRm(idx) ==
    IF queue = <<>>
    THEN UNCHANGED queue /\ QsDone("rm", Cardinality(idx), idx, <<>>, "err_empty")
    ELSE IF ~RmValid(idx, Len(queue))
    THEN UNCHANGED queue /\ QsDone("rm", Cardinality(idx), idx, <<>>, "err_index")
    ELSE LET S == RmMatched(queue, idx)
         IN IF \E i \in S : queue[i].mode = "end"
            THEN UNCHANGED queue /\ QsDone("rm", Cardinality(idx), idx, <<>>, "err_stop")
            ELSE /\ queue' = RemoveAt(queue, S, 1)
                 /\ QsDone("rm", Cardinality(idx), idx, <<>>, "ok")

\* clear_queue_locking
QsClear ==
    IF queue = <<>>
    THEN UNCHANGED queue /\ QsDone("clear", 0, {}, <<>>, "err_empty")
    ELSE queue' = clear_queue(queue) /\ QsDone("clear", 0, {}, <<>>, "ok")

\* play_only_track from call.enqueue to queue.resume: the queue it leaves and its result
play_only_track(q, t) ==
    LET q1 == QEnqueue(q, t)
    IN IF Len(q1) > 1
       THEN IF QCanControl(q1)
            THEN [q |-> QResume(MoveBackToFront(QPause(q1))), res |-> "ok"]
            ELSE [q |-> q1, res |-> "err_pause"]
       ELSE [q |-> QResume(q1), res |-> "ok"]

\* process_play with n arguments, as the named command
QsProcessPlay(op, n) ==
    IF n > 1
    THEN UNCHANGED queue /\ QsDone(op, n, {}, <<>>, "err_args")
    ELSE \E ok \in BOOLEAN :
            IF ~ok
            THEN UNCHANGED queue /\ QsDone(op, n, {}, <<>>, "err_resolve")
            ELSE LET ids == QsFresh(QsUnused, 1)
                     r == play_only_track(queue, ids[1])
                 IN queue' = r.q /\ QsDone(op, n, {}, ids, r.res)

\* the Play arm
QsPlay ==
    /\ Len(queue) < MaxLen
    /\ QsProcessPlay("play", 1)

\* process_enqueue: every URL resolved, then every track enqueued
QsQueue(n) ==
    /\ Len(queue) + n <= MaxLen
    /\ \E ok \in BOOLEAN :
          IF ~ok
          THEN UNCHANGED queue /\ QsDone("queue", n, {}, <<>>, "err_resolve")
          ELSE LET ids == QsFresh(QsUnused, n)
               IN queue' = EnqueueAll(queue, ids) /\ QsDone("queue", n, {}, ids, "ok")

\* process_next: an empty queue goes to process_play with all the arguments,
\* any other resolves args.first() only and places it behind the current track
QsNext(n) ==
    /\ Len(queue) < MaxLen
    /\ IF queue = <<>>
       THEN QsProcessPlay("next", n)
       ELSE \E ok \in BOOLEAN :
               IF ~ok
               THEN UNCHANGED queue /\ QsDone("next", n, {}, <<>>, "err_resolve")
               ELSE LET ids == QsFresh(QsUnused, 1)
                    IN /\ queue' = InsertSecond(QEnqueue(queue, ids[1]))
                       /\ QsDone("next", n, {}, ids, "ok")

QNext ==
    \/ QsTrackEnd
    \/ QsDriverPop
    \/ QsSkip
    \/ \E k \in 0..MaxLen : QsGoto(k)
    \/ \E idx \in SUBSET (0..MaxLen) \ {{}} : QsRm(idx)
    \/ QsClear
    \/ QsPlay
    \/ \E n \in 1..MaxArgs : QsQueue(n)
    \/ \E n \in 1..MaxArgs : QsNext(n)

QSpec == QsInit /\ [][QNext]_vars

\* ---- the command parser: tokenize and Parser::match_tokens ----
\* A message is a sequence of pieces: words, separated from each other by one
\* blank, and runs of whitespace that stand between them: Blank (space, tab,
\* newline or form feed, the characters the lexer skips) and OddSpace (any
\* other whitespace character, such as a carriage return, which neither the
\* skip rule [ \t\n\f]+ nor the word rule [\S]+ matches).
\* cmd[1] keeps the message and, once parsed, what match_tokens returned.
MaxWords == 4       \* pieces of one message

Blank == " "
OddSpace == "\r"
Keywords == {"help", "leave", "stop", "pause", "resume", "skip", "list", "clear", "play",
             "driveby", "queue", "search", "next", "rm", "goto"}
GenericWords == {"a", "b"}
PsPieces == Keywords \cup GenericWords \cup {Blank, OddSpace}

Token(tag, text) == [tag |-> tag, text |-> text]

\* enum Token: the #[token(..)] of a keyword
KeywordTag(w) ==
    CASE w = "help" -> "Help"
      [] w = "leave" -> "Leave"
      [] w = "stop" -> "Stop"
      [] w = "pause" -> "Pause"
      [] w = "resume" -> "Resume"
      [] w = "skip" -> "Skip"
      [] w = "list" -> "List"
      [] w = "clear" -> "Clear"
      [] w = "play" -> "Play"
      [] w = "driveby" -> "Driveby"
      [] w = "queue" -> "Queue"
      [] w = "search" -> "Search"
      [] w = "next" -> "Next"
      [] w = "rm" -> "Rm"
      [] w = "goto" -> "Goto"

\* get_tokens: Token::lexer(string).spanned().collect()
RECURSIVE get_tokens(_)
get_tokens(input) ==
    IF input = <<>> THEN <<>>
    ELSE LET w == Head(input)
             t == CASE w = Blank -> <<>>
                    [] w = OddSpace -> <<Token("Error", "")>>
                    [] w \in Keywords -> <<Token(KeywordTag(w), "")>>
                    [] OTHER -> <<Token("Generic", w)>>
         IN t \o get_tokens(Tail(input))

IsGeneric(t) == t.tag = "Generic"
NotGeneric(t) == t.tag # "Generic"

\* tokenize: the tokens, the Generic ones among them, or the no-tokens error
tokenize(input) ==
    LET tokens == get_tokens(input)
    IN IF tokens = <<>>
       THEN [err |-> TRUE, tokens |-> <<>>, args |-> <<>>]
       ELSE [err |-> FALSE, tokens |-> tokens, args |-> SelectSeq(tokens, IsGeneric)]

EXPECTED_TOKENS_Shadowed ==
    << <<"Play">>, <<"Help">>, <<"Play", "Argument">>, <<"Play", "Search", "Arguments">> >>

\* AudioCommands::EXPECTED_TOKENS
EXPECTED_TOKENS ==
    << <<"Help">>, <<"List">>, <<"Pause">>, <<"Resume">>, <<"Skip">>, <<"Clear">>, <<"Stop">>,
       <<"Leave">>,
       <<"Play", "Argument">>,
       <<"Play", "Search", "Arguments">>,
       <<"Driveby", "Argument">>,
       <<"Driveby", "Search", "Argument">>,
       <<"Queue", "Arguments">>,
       <<"Next", "Arguments">>,
       <<"Goto", "Argument">>,
       <<"Rm", "Arguments">> >>

LeftoverCheck_Continue(toks, p) == IF p <= Len(toks) THEN "next" ELSE "ok"

\* match_tokens: parsed_tokens_iter.peek().is_some() after a matched chain
LeftoverCheck(toks, p) == IF p <= Len(toks) THEN "extra" ELSE "ok"

\* match_tokens, the loop over the tokens of one chain: slot i of the chain
\* against the parsed token at p.  "next" stands for continue 'outer.
RECURSIVE MatchChain(_, _, _, _)
MatchChain(pat, toks, i, p) ==
    IF i > Len(pat) THEN LeftoverCheck(toks, p)
    ELSE IF pat[i] = "Arguments"
    THEN IF p > Len(toks) THEN "next"
         ELSE IF \A j \in p..Len(toks) : IsGeneric(toks[j]) THEN "ok" ELSE "next"
    ELSE IF p > Len(toks) THEN "next"
    ELSE IF IsGeneric(toks[p])
    THEN IF pat[i] # "Argument" THEN "next" ELSE MatchChain(pat, toks, i + 1, p + 1)
    ELSE IF toks[p].tag # pat[i] THEN "next"
    ELSE MatchChain(pat, toks, i + 1, p + 1)

\* match_tokens, the loop over the table from chain r on
RECURSIVE MatchTable(_, _)
MatchTable(toks, r) ==
    IF r > Len(EXPECTED_TOKENS) THEN "novalid"
    ELSE LET m == MatchChain(EXPECTED_TOKENS[r], toks, 1, 1)
         IN IF m = "next" THEN MatchTable(toks, r + 1) ELSE m

RECURSIVE Tags(_)
Tags(toks) == IF toks = <<>> THEN <<>> ELSE <<Head(toks).tag>> \o Tags(Tail(toks))

CommandTokens_KeepAll(toks) == Tags(toks)

\* match_tokens: command_tokens.retain(not Generic)
CommandTokens(toks) == Tags(SelectSeq(toks, NotGeneric))

\* Parser::match_tokens on the content of a message
match_tokens(input) ==
    LET t == tokenize(input)
    IN IF t.err
       THEN [res |-> "err_no_tokens", tokens |-> <<>>, matched |-> <<>>, args |-> <<>>]
       ELSE LET m == MatchTable(t.tokens, 1)
            IN IF m = "ok"
               THEN [res |-> "ok", tokens |-> t.tokens, matched |-> CommandTokens(t.tokens),
                     args |-> t.args]
               ELSE [res |-> "err_" \o m, tokens |-> t.tokens, matched |-> <<>>, args |-> <<>>]

PsInit ==
    /\ playerLock = NoOwner
    /\ idle_callback_action = "TIMEOUT"
    /\ timeout_handle = NoHandle
    /\ task = [t \in Tasks |-> "dead"]
    /\ chan = NoChannel
    /\ humans = [ch \in Channels |-> 0]
    /\ queue = <<>>
    /\ pendingTE = 0
    /\ pendingDC = 0
    /\ dcpc = "idle"
    /\ dcChan = NoChannel
    /\ cmd = [c \in Cmds |-> IF c = 1 THEN [op |-> "message", input |-> <<>>] ELSE IdleCmd]
    /\ last = "none"

\* the content of the message, one piece (a word or a whitespace) after another
PsWrite(w) ==
    /\ cmd[1].op = "message"
    /\ Len(cmd[1].input) < MaxWords
    /\ cmd' = [cmd EXCEPT ![1].input = Append(@, w)]
    /\ last' = "write"
    /\ UNCHANGED <<playerLock, supervisorVars, chan, humans, queue, pendingTE, eventVars>>

\* Parser::process up to its match: let (matched, args) = self.match_tokens(msg)?
PsMatch ==
    /\ cmd[1].op = "message"
    /\ LET r == match_tokens(cmd[1].input)
       IN /\ cmd' = [cmd EXCEPT ![1] = [op |-> "matched", input |-> cmd[1].input,
                                        tokens |-> r.tokens, matched |-> r.matched,
                                        args |-> r.args]]
          /\ last' = "match_" \o r.res
    /\ UNCHANGED <<playerLock, supervisorVars, chan, humans, queue, pendingTE, eventVars>>

ProcessArms_NoSearch ==
    << <<"Help">>, <<"List">>, <<"Pause">>, <<"Resume">>, <<"Skip">>, <<"Clear">>, <<"Stop">>,
       <<"Leave">>, <<"Play">>, <<"Driveby">>, <<"Queue">>, <<"Next">>, <<"Goto">>, <<"Rm">> >>

\* Parser::process: the patterns of match &matched[..], in order, before the _ arm
ProcessArms ==
    << <<"Help">>, <<"List">>, <<"Pause">>, <<"Resume">>, <<"Skip">>, <<"Clear">>, <<"Stop">>,
       <<"Leave">>,
       <<"Play">>,
       <<"Play", "Search">>,
       <<"Driveby">>,
       <<"Driveby", "Search">>,
       <<"Queue">>,
       <<"Next">>,
       <<"Goto">>,
       <<"Rm">> >>

\* the first arm whose pattern is the matched slice; 0 is the _ arm
Dispatch(matched) ==
    LET hits == {i \in 1..Len(ProcessArms) : ProcessArms[i] = matched}
    IN IF hits = {} THEN 0 ELSE CHOOSE i \in hits : \A j \in hits : i <= j

\* Parser::process after a successful match: the arm that takes the command
PsDispatch ==
    /\ cmd[1].op = "matched"
    /\ last = "match_ok"
    /\ LET arm == Dispatch(cmd[1].matched)
       IN /\ cmd' = [cmd EXCEPT ![1] = [op |-> "dispatched", input |-> cmd[1].input,
                                        tokens |-> cmd[1].tokens, matched |-> cmd[1].matched,
                                        args |-> cmd[1].args, arm |-> arm]]
          /\ last' = IF arm = 0 THEN "dispatch_fallback" ELSE "dispatch_arm"
    /\ UNCHANGED <<playerLock, supervisorVars, chan, humans, queue, pendingTE, eventVars>>

PNext ==
    \/ \E w \in PsPieces : PsWrite(w)
    \/ PsMatch
    \/ PsDispatch

PSpec == PsInit /\ [][PNext]_vars

\* ---- joining a voice channel: join_channel and join_most_crowded ----
\* The voice channels of one guild in the order the channel map enumerates
\* them, the member count of each, and the channel the call is connected to.
\* Members come and go, then one join is made from the state they left.

MaxVoice == 3       \* voice channels of the guild
MaxMembers == 2     \* human members of one voice channel

JsChannels == 1..MaxVoice

\* guild.channels().values(): the voice channels in some order, each once
JsOrders == {o \in [1..MaxVoice -> JsChannels] : \A i, j \in 1..MaxVoice : o[i] = o[j] => i = j}

\* channel.members(cache).len() of every voice channel
MemberCounts == [ch \in JsChannels |-> Members(ch)]

SortedInsert_TiesFirst(s, x, n) ==
    LET before == SelectSeq(s, LAMBDA y : n[y] > n[x])
        after == SelectSeq(s, LAMBDA y : n[y] <= n[x])
    IN before \o <<x>> \o after

\* sort_by(|a, b| b_members.partial_cmp(&a_members)): x goes behind every
\* channel with as many members or more (the sort is stable)
SortedInsert(s, x, n) ==
    LET before == SelectSeq(s, LAMBDA y : n[y] >= n[x])
        after == SelectSeq(s, LAMBDA y : n[y] < n[x])
    IN before \o <<x>> \o after

\* voice_channels.sort_by(..): most to least crowded
RECURSIVE SortByMembers(_, _)
SortByMembers(order, n) ==
    IF order = <<>> THEN <<>>
    ELSE SortedInsert(SortByMembers(SubSeq(order, 1, Len(order) - 1), n), order[Len(order)], n)

\* join_channel: the log line, set_bitrate, then call.join(id).await? whatever
\* the current connection is
join_channel(ch) ==
    {[transport |-> TRUE, ok |-> j[1], chan |-> j[2]] : j \in JoinOutcomes(ch)}

JsIdle == [op |-> "none", target |-> NoChannel, before |-> NoChannel, transport |-> FALSE,
           order |-> <<>>, counts |-> <<>>]

JsFrame == UNCHANGED <<playerLock, supervisorVars, queue, pendingTE, eventVars>>

JsInit ==
    /\ playerLock = NoOwner
    /\ idle_callback_action = "TIMEOUT"
    /\ timeout_handle = NoHandle
    /\ task = [t \in Tasks |-> "dead"]
    /\ chan \in JsChannels \cup {NoChannel}
    /\ humans = [ch \in JsChannels |-> 0]
    /\ queue = <<>>
    /\ pendingTE = 0
    /\ pendingDC = 0
    /\ dcpc = "idle"
    /\ dcChan = NoChannel
    /\ cmd = [c \in Cmds |-> IF c = 1 THEN JsIdle ELSE IdleCmd]
    /\ last = "none"

\* a member enters a voice channel
JsMemberJoin(ch) ==
    /\ cmd[1].op = "none"
    /\ humans[ch] < MaxMembers
    /\ humans' = [humans EXCEPT ![ch] = @ + 1]
    /\ last' = "member_join"
    /\ UNCHANGED <<chan, cmd>>
    /\ JsFrame

\* a member leaves a voice channel
JsMemberLeave(ch) ==
    /\ cmd[1].op = "none"
    /\ humans[ch] > 0
    /\ humans' = [humans EXCEPT ![ch] = @ - 1]
    /\ last' = "member_leave"
    /\ UNCHANGED <<chan, cmd>>
    /\ JsFrame

\* join_channel(channel), as join_summoner calls it
JsJoinChannel(ch) ==
    /\ cmd[1].op = "none"
    /\ \E j \in join_channel(ch) :
          /\ chan' = j.chan
          /\ cmd' = [cmd EXCEPT ![1] = [op |-> "join_channel", target |-> ch, before |-> chan,
                                        transport |-> j.transport, order |-> <<>>,
                                        counts |-> MemberCounts]]
          /\ last' = IF j.ok THEN "join_channel_ok" ELSE "join_channel_err"
    /\ UNCHANGED humans
    /\ JsFrame

\* join_most_crowded for one enumeration of the voice channels
JsJoinMostCrowded(order) ==
    /\ cmd[1].op = "none"
    /\ LET voice_channels == SortByMembers(order, MemberCounts)
           first == voice_channels[1]
           rec == [op |-> "join_most_crowded", target |-> first, before |-> chan,
                   transport |-> FALSE, order |-> order, counts |-> MemberCounts]
       IN IF MemberCounts[first] > 0
          THEN \E j \in join_channel(first) :
                  /\ chan' = j.chan
                  /\ cmd' = [cmd EXCEPT ![1] = [rec EXCEPT !.transport = j.transport]]
                  /\ last' = IF j.ok THEN "crowded_ok" ELSE "crowded_err_join"
          ELSE /\ cmd' = [cmd EXCEPT ![1] = [rec EXCEPT !.target = NoChannel]]
               /\ last' = "crowded_err_nobody"
               /\ UNCHANGED chan
    /\ UNCHANGED humans
    /\ JsFrame

JNext ==
    \/ \E ch \in JsChannels : JsMemberJoin(ch)
    \/ \E ch \in JsChannels : JsMemberLeave(ch)
    \/ \E ch \in JsChannels : JsJoinChannel(ch)
    \/ \E order \in JsOrders : JsJoinMostCrowded(order)

JSpec == JsInit /\ [][JNext]_vars

\* ---- the track-end policy and the track whose end is reported ----
\* Every handler of Parser::process holds the player lock from its first to its
\* last statement and TrackEndCallback::act takes it first, so here a command is
\* one step.  pendingTE holds the Track(End) events by the id of their track,
\* cmd[1].by the command that started each track.

LsIdle == [op |-> "none", by |-> [i \in TrackIds |-> "none"]]

LsPendingIds == {pendingTE[i] : i \in 1..Len(pendingTE)}
LsUnusedIds == TrackIds \ (IdSet(queue) \cup LsPendingIds)
LsFresh == CHOOSE i \in LsUnusedIds : \A j \in LsUnusedIds : i <= j

LsFrame == UNCHANGED <<playerLock, humans, eventVars>>

LsInit ==
    /\ playerLock = NoOwner
    /\ idle_callback_action = "TIMEOUT"
    /\ timeout_handle = NoHandle
    /\ task = [t \in Tasks |-> "dead"]
    /\ chan = NoChannel
    /\ humans = [ch \in Channels |-> 1]
    /\ queue = <<>>
    /\ pendingTE = <<>>
    /\ pendingDC = 0
    /\ dcpc = "idle"
    /\ dcChan = NoChannel
    /\ cmd = [c \in Cmds |-> IF c = 1 THEN LsIdle ELSE IdleCmd]
    /\ last = "none"

LsStarted(op, id) == cmd' = [cmd EXCEPT ![1] = [op |-> op, by |-> [cmd[1].by EXCEPT ![id] = op]]]

\* process_play with one URL: cancel_timeout, make_ytdl_track,
\* set_idle_check(TIMEOUT), join_summoner, play_only_track
LsPlay ==
    /\ LsUnusedIds # {}
    /\ Len(queue) < MaxQueue
    /\ cancel_timeout
    /\ \E res \in {"err_resolve", "err_join", "ok"}, ch \in Channels :
          IF res = "err_resolve"
          THEN /\ UNCHANGED <<idle_callback_action, chan, queue, cmd>>
               /\ last' = "play_err_resolve"
          ELSE /\ idle_callback_action' = "TIMEOUT"
               /\ IF res = "err_join"
                  THEN /\ \E j \in {chan, NoChannel} : chan' = j
                       /\ UNCHANGED <<queue, cmd>>
                       /\ last' = "play_err_join"
                  ELSE LET r == play_only_track(queue, LsFresh)
                       IN /\ chan' = ch
                          /\ queue' = r.q
                          /\ LsStarted("play", LsFresh)
                          /\ last' = "play_" \o r.res
    /\ UNCHANGED pendingTE
    /\ LsFrame

\* process_driveby with one URL: cancel_timeout, make_ytdl_track,
\* join_most_crowded, set_idle_check(LEAVE), play_only_track, clear_queue_locking
LsDriveby ==
    /\ LsUnusedIds # {}
    /\ Len(queue) < MaxQueue
    /\ cancel_timeout
    /\ \E res \in {"err_resolve", "err_join", "ok"}, ch \in Channels :
          IF res = "err_resolve"
          THEN /\ UNCHANGED <<idle_callback_action, chan, queue, cmd>>
               /\ last' = "driveby_err_resolve"
          ELSE IF res = "err_join"
          THEN /\ \E j \in {chan, NoChannel} : chan' = j
               /\ UNCHANGED <<idle_callback_action, queue, cmd>>
               /\ last' = "driveby_err_join"
          ELSE LET r == play_only_track(queue, LsFresh)
               IN /\ idle_callback_action' = "LEAVE"
                  /\ chan' = ch
                  /\ queue' = IF r.res = "ok" THEN clear_queue(r.q) ELSE r.q
                  /\ LsStarted("driveby", LsFresh)
                  /\ last' = "driveby_" \o r.res
    /\ UNCHANGED pendingTE
    /\ LsFrame

\* the current track plays to its end: Track(End) is raised for it
LsNaturalEnd ==
    /\ queue # <<>>
    /\ Head(queue).mode = "play"
    /\ Len(pendingTE) < MaxPending
    /\ queue' = SetMode(queue, 1, "end")
    /\ pendingTE' = Append(pendingTE, Head(queue).id)
    /\ last' = "none"
    /\ UNCHANGED <<supervisorVars, chan, cmd>>
    /\ LsFrame

\* the queue's own end-of-track handler drops the ended track and plays the next
LsDriverPop ==
    /\ queue # <<>>
    /\ Head(queue).mode = "end"
    /\ queue' = QResume(Tail(queue))
    /\ last' = "none"
    /\ UNCHANGED <<supervisorVars, chan, pendingTE, cmd>>
    /\ LsFrame

\* TrackEndCallback::act for the oldest Track(End) event: the policy is read
\* when the event is handled
LsTrackEnd ==
    /\ pendingTE # <<>>
    /\ IF idle_callback_action = "TIMEOUT"
       THEN LET tk == AbortHandle(task, timeout_handle)
            IN /\ task' = [tk EXCEPT ![FreeSlot(tk)] = "sleeping"]
               /\ timeout_handle' = FreeSlot(tk)
               /\ pendingTE' = Tail(pendingTE)
               /\ last' = "te_timeout"
               /\ UNCHANGED <<chan, queue>>
       ELSE \E o \in HangupOutcomes(Len(pendingTE) - 1) :
               /\ cancel_timeout
               /\ queue' = <<>>
               /\ chan' = o.ch
               /\ pendingTE' = IF o.ev THEN Append(Tail(pendingTE), Head(queue).id)
                               ELSE Tail(pendingTE)
               /\ last' = IF o.ok THEN "te_leave" ELSE "te_leave_panic"
    /\ UNCHANGED <<idle_callback_action, cmd>>
    /\ LsFrame

\* the countdown task at its expiry
LsCountdownExpire(t) ==
    /\ task[t] = "sleeping"
    /\ IF ExpiryShutsDown(queue)
       THEN \E o \in HangupOutcomes(Len(pendingTE)) :
               /\ queue' = <<>>
               /\ chan' = o.ch
               /\ pendingTE' = IF o.ev THEN Append(pendingTE, Head(queue).id) ELSE pendingTE
               /\ task' = [AbortHandle(task, timeout_handle) EXCEPT ![t] = "dead"]
               /\ timeout_handle' = NoHandle
               /\ last' = IF o.ok THEN "expiry_shutdown" ELSE "expiry_shutdown_panic"
       ELSE /\ task' = [task EXCEPT ![t] = "dead"]
            /\ last' = "expiry_noop"
            /\ UNCHANGED <<timeout_handle, chan, queue, pendingTE>>
    /\ UNCHANGED <<idle_callback_action, cmd>>
    /\ LsFrame

LNext ==
    \/ LsPlay
    \/ LsDriveby
    \/ LsNaturalEnd
    \/ LsDriverPop
    \/ LsTrackEnd
    \/ \E t \in Tasks : LsCountdownExpire(t)

LSpec == LsInit /\ [][LNext]_vars

\* ---- the three locks: player, call, countdown handle ----
\* Every participant is the sequence of lock operations its code performs:
\* "P+" is self.audio_player.lock().await, "C+" the lock of call_handle_lock,
\* "H+" the lock of the stored JoinHandle, "P-" "C-" "H-" the drop of the
\* guard, "abort" handle.abort(), "sleep" an await that holds none of them.
\* cmd[p] is the program participant p runs and how many of its operations
\* it has done; playerLock is the holder of the player lock.  Which way a
\* participant goes is decided when it has the player lock.

DsTrackEnd == NumCmds + 1       \* TrackEndCallback::act for Track(End)
DsDisconnect == NumCmds + 2     \* TrackEndCallback::act for ClientDisconnect
DsCountdown == NumCmds + 3      \* the task spawned by the TIMEOUT branch
DsProcs == 1..(NumCmds + 3)

\* cancel_timeout: nothing without a stored handle, else lock it and abort
CancelOps == {<<>>, <<"H+", "abort", "H-">>}

\* one scope that holds the call lock
CallOps == <<"C+", "C-">>

\* play_only_track: enqueue under the call lock; with a track in front of the
\* new one: pause, drop(call), cancel_timeout
PlayOnlyOps == {CallOps} \cup {CallOps \o c : c \in CancelOps}

\* pause, resume, skip, stop, clear, list, leave: the player lock, one call lock scope
ProgSimple == <<"P+">> \o CallOps \o <<"P-">>

\* process_play and process_driveby: cancel_timeout, the resolution, then
\* (unless it failed) join_channel, play_only_track and for driveby clear_queue_locking
PlayProgs ==
    {<<"P+">> \o c \o <<"sleep", "P-">> : c \in CancelOps}
      \cup {<<"P+">> \o c \o <<"sleep">> \o CallOps \o pot \o tail \o <<"P-">> :
               c \in CancelOps, pot \in PlayOnlyOps, tail \in {<<>>, CallOps}}

\* process_enqueue: the resolutions, join_channel, the enqueue loop;
\* process_next: the queue read, the resolution, the insert;
\* process_rm and process_goto: the length read, then the removal
ProgTwoScopes == <<"P+", "sleep">> \o CallOps \o <<"sleep">> \o CallOps \o <<"P-">>

\* the Track branch: TIMEOUT locks the stored handle to abort it and spawns
\* the countdown; LEAVE is shutdown(): cancel_timeout, hangup
TrackEndProgs ==
    {<<"P+", "P-">>, <<"P+", "H+", "abort", "H-", "P-">>}
      \cup {<<"P+">> \o c \o CallOps \o <<"P-">> : c \in CancelOps}

ProgDisconnect_CallFirst ==
    <<"C+", "P+", "P-", "C-", "sleep", "P+">> \o CallOps \o <<"P-">>

\* the ClientDisconnect branch: player and call lock for the channel id, both
\* dropped, the 250 ms sleep, then the player lock again and hangup()
ProgDisconnect == <<"P+">> \o CallOps \o <<"P-", "sleep", "P+">> \o CallOps \o <<"P-">>

\* the countdown task: sleep, player lock, the queue under the call lock,
\* get_info, and shutdown() when nothing plays
CountdownProgs ==
    {<<"sleep", "P+">> \o CallOps \o <<"sleep", "P-">>}
      \cup {<<"sleep", "P+">> \o CallOps \o <<"sleep">> \o c \o CallOps \o <<"P-">> :
               c \in CancelOps}

DsProgs(p) ==
    CASE p \in Cmds -> {ProgSimple, ProgTwoScopes} \cup PlayProgs
      [] p = DsTrackEnd -> TrackEndProgs
      [] p = DsDisconnect -> {ProgDisconnect}
      [] p = DsCountdown -> CountdownProgs

\* how every program of p begins: up to the first lock of the player
DsEntry(p) == IF p = DsCountdown THEN <<"sleep", "P+">> ELSE <<"P+">>

DsIdle == [prog |-> <<>>, pos |-> 0]

RECURSIVE DsCount(_, _, _)
DsCount(prog, n, op) ==
    IF n = 0 THEN 0 ELSE DsCount(prog, n - 1, op) + (IF prog[n] = op THEN 1 ELSE 0)

\* p has locked L and not dropped the guard
Holds(p, L) ==
    DsCount(cmd[p].prog, cmd[p].pos, L \o "+") > DsCount(cmd[p].prog, cmd[p].pos, L \o "-")

DsNextOp(p) == IF cmd[p].pos < Len(cmd[p].prog) THEN cmd[p].prog[cmd[p].pos + 1] ELSE "none"

\* p has done its next operation; after the last one it is idle again
DsAdvance(f, p) ==
    IF f[p].pos + 1 = Len(f[p].prog) THEN [f EXCEPT ![p] = DsIdle]
    ELSE [f EXCEPT ![p].pos = @ + 1]

DsFrame ==
    UNCHANGED <<supervisorVars, chan, humans, queue, pendingTE, eventVars>>

DsInit ==
    /\ playerLock = NoOwner
    /\ idle_callback_action = "TIMEOUT"
    /\ timeout_handle = NoHandle
    /\ task = [t \in Tasks |-> "dead"]
    /\ chan = NoChannel
    /\ humans = [ch \in Channels |-> 0]
    /\ queue = <<>>
    /\ pendingTE = 0
    /\ pendingDC = 0
    /\ dcpc = "idle"
    /\ dcChan = NoChannel
    /\ cmd = [p \in DsProcs |-> DsIdle]
    /\ last = "none"

\* a message, an event or a spawn starts a participant
DsStart(p) ==
    /\ cmd[p] = DsIdle
    /\ cmd' = [cmd EXCEPT ![p] = [prog |-> DsEntry(p), pos |-> 0]]
    /\ last' = "start"
    /\ UNCHANGED playerLock
    /\ DsFrame

\* lock().await returns when nobody holds the lock; prog is what p does from there
DsAcquire(p, L, prog) ==
    /\ DsNextOp(p) = L \o "+"
    /\ \A q \in DsProcs : ~Holds(q, L)
    /\ IF cmd[p].prog = DsEntry(p)
       THEN cmd' = [cmd EXCEPT ![p] = [prog |-> prog, pos |-> cmd[p].pos + 1]]
       ELSE prog = cmd[p].prog /\ cmd' = DsAdvance(cmd, p)
    /\ playerLock' = IF L = "P" THEN p ELSE playerLock
    /\ last' = "acquire"
    /\ DsFrame

\* the guard is dropped
DsRelease(p, L) ==
    /\ DsNextOp(p) = L \o "-"
    /\ cmd' = DsAdvance(cmd, p)
    /\ playerLock' = IF L = "P" THEN NoOwner ELSE playerLock
    /\ last' = "release"
    /\ DsFrame

\* an await that is not a lock
DsSleep(p) ==
    /\ DsNextOp(p) = "sleep"
    /\ cmd' = DsAdvance(cmd, p)
    /\ last' = "sleep"
    /\ UNCHANGED playerLock
    /\ DsFrame

\* handle.abort(): a countdown task that sleeps or waits for the player lock
\* ends there; one that runs notices nothing before it returns
DsAbort(p) ==
    /\ DsNextOp(p) = "abort"
    /\ LET f == DsAdvance(cmd, p)
       IN cmd' = IF p # DsCountdown /\ ~Holds(DsCountdown, "P")
                 THEN [f EXCEPT ![DsCountdown] = DsIdle]
                 ELSE f
    /\ last' = "abort"
    /\ UNCHANGED playerLock
    /\ DsFrame

DNext ==
    \/ \E p \in DsProcs : DsStart(p)
    \/ \E p \in DsProcs : \E L \in {"P", "C", "H"} : \E prog \in DsProgs(p) : DsAcquire(p, L, prog)
    \/ \E p \in DsProcs : \E L \in {"P", "C", "H"} : DsRelease(p, L)
    \/ \E p \in DsProcs : DsSleep(p)
    \/ \E p \in DsProcs : DsAbort(p)

DSpec == DsInit /\ [][DNext]_vars

\* ---- the claims ----
PanicTags == {"te_leave_panic", "expiry_shutdown_panic", "dc_hangup_panic", "dc_panic"}
ExpiryTags == {"expiry_shutdown", "expiry_shutdown_panic", "expiry_noop"}
ShutdownTags == {"te_leave", "te_leave_panic", "expiry_shutdown", "expiry_shutdown_panic",
                 "dc_hangup", "dc_hangup_panic"}
TrackEndTags == {"te_timeout", "te_replace", "te_leave", "te_leave_panic"}

\* C1: at most one countdown is live, and it is the one whose handle is stored:
\* a countdown that the track-end handler replaced is dead and never runs its
\* expiry test.
C1_OneCountdown ==
    \A t \in Tasks : task[t] = "sleeping" => timeout_handle = t

\* a track-end handler has just replaced a live countdown by a new one
C1_Witness ==
    /\ last = "te_replace"
    /\ timeout_handle # NoHandle
    /\ Live(task) = {timeout_handle}

\* C2: at expiry the countdown shuts down exactly when the queue is empty or
\* the current track is not playing (paused or ended).
C2_ExpiryShutsDownIffNotPlaying ==
    [][last' \in ExpiryTags =>
          ((last' # "expiry_noop") <=> (queue = <<>> \/ Head(queue).mode # "play"))]_vars

\* C3: once play, driveby, queue or next has begun its work (resolution, join,
\* queue changes), no countdown is outstanding.
WorkSteps == {"resolve", "join_summoner", "join_crowded", "pot_enqueue", "pot_cancel",
              "pot_front", "drv_clear", "insert_next"}

C3_CountdownCancelledBeforeWork ==
    \A c \in Cmds : cmd[c].op \in EnqueueOps /\ cmd[c].pc \in WorkSteps => Live(task) = {}

\* C4: the bot is never left connected and idle (queue empty or current track
\* paused) with nothing in progress and no countdown that would take it out.
Quiet ==
    /\ \A c \in Cmds : cmd[c].pc = "idle"
    /\ pendingTE = 0
    /\ pendingDC = 0
    /\ dcpc = "idle"

C4_IdleSessionHasCountdown ==
    (chan # NoChannel /\ Quiet /\ (queue = <<>> \/ Head(queue).mode = "pause"))
        => Live(task) # {}

\* C5: the track-end handler under LEAVE cancels the countdown, stops the queue
\* and leaves the call in the same step, and installs no countdown.
C5_LeaveShutsDownAtOnce ==
    last \in {"te_leave", "te_leave_panic"} =>
        /\ timeout_handle = NoHandle
        /\ Live(task) = {}
        /\ queue = <<>>
        /\ (last = "te_leave" => chan = NoChannel)

\* the handler has just left a call under LEAVE
C5_Witness ==
    /\ last = "te_leave"
    /\ idle_callback_action = "LEAVE"
    /\ chan = NoChannel

\* C6: the disconnect handler hangs up only when the bot is the only member of
\* its channel, and stays (changing nothing) only when another member is there.
C6_HangupIffAlone ==
    [][/\ last' \in {"dc_hangup", "dc_hangup_panic"} =>
             chan # NoChannel /\ Members(chan) = 1
       /\ last' = "dc_stay" =>
             /\ chan # NoChannel /\ Members(chan) > 1
             /\ UNCHANGED <<chan, queue, timeout_handle, task>>]_vars

\* C7: a track-end or disconnect event handled when the bot is in no channel
\* is a no-op: no panic, no change of connection, queue or countdown.
C7_LateEventIsNoOp ==
    [][(chan = NoChannel /\ last' \in TrackEndTags \cup {"dc_panic"}) =>
          /\ last' \notin PanicTags
          /\ UNCHANGED <<chan, queue, timeout_handle, task>>]_vars

\* C8: after a shutdown by the supervisor the bot is in no channel and the
\* queue is empty, and the handler has not panicked on a failed leave.
C8_ShutdownAlwaysReachesLeft ==
    last \in ShutdownTags => chan = NoChannel /\ queue = <<>> /\ last \notin PanicTags

\* C9: the player lock is free while a command waits for media resolution or
\* for a channel join.
C9_LockFreeWhileResolving ==
    \A c \in Cmds : cmd[c].pc \in {"resolve", "join_summoner", "join_crowded"} => PlayerLockFree

\* C10: while a command is between the push and the move-to-front of
\* play_only_track, or between the validation and the removal of process_rm,
\* no other command and no locked section of the callbacks or of the
\* countdown task takes a step.
MidMutation == {"pot_cancel", "pot_front", "rm_remove"}
LockedTags == TrackEndTags \cup ExpiryTags \cup {"dc_hangup", "dc_hangup_panic", "dc_panic"}

C10_MutationsAtomic ==
    [][\A c \in Cmds : cmd[c].pc \in MidMutation =>
          /\ \A d \in Cmds \ {c} : cmd'[d] = cmd[d]
          /\ last' \notin LockedTags
          /\ ~(dcpc = "idle" /\ dcpc' = "sleep")]_vars

\* a command is between the two steps of its queue mutation while a disconnect
\* event waits for the player lock
C10_Witness ==
    \E c \in Cmds :
        /\ cmd[c].pc \in MidMutation
        /\ pendingDC > 0
        /\ dcpc = "idle"

\* ---- who replaces the current track (Spec) ----
\* the track at position 0 is not the one that was there
HeadReplaced == queue # <<>> /\ (queue' = <<>> \/ queue'[1].id # queue[1].id)

\* the driver drops a current track that skip has stopped or that has played out
ByDriverDrop == queue # <<>> /\ Head(queue).mode = "end" /\ queue' = QResume(Tail(queue)) /\ cmd' = cmd

\* a command handler at one of the given positions takes the step
StepAt(pcs, ops) ==
    \E c \in Cmds : cmd[c].pc \in pcs /\ cmd[c].op \in ops /\ cmd'[c] # cmd[c]

AllOps == EnqueueOps \cup SimpleOps \cup {"rm", "goto"}

\* C21 (as stated): the track at position 0 is replaced only as a consequence
\* of skip, goto or a natural track end.
C21_HeadReplacedOnlyBySkipGotoEnd ==
    [][HeadReplaced => (ByDriverDrop \/ StepAt({"goto_pop"}, {"goto"}))]_<<vars, last>>

\* C21 (amended): the track at position 0 is replaced or removed only as a
\* consequence of skip, goto, a natural track end, a play or driveby (the new
\* track goes in front of it), stop, or a hangup (leave, disconnect handler,
\* countdown, LEAVE policy); rm and clear never remove or replace it.
C21_HeadReplacedOnlyByKnownCauses ==
    [][/\ HeadReplaced =>
             \/ ByDriverDrop
             \/ StepAt({"goto_pop"}, {"goto"})
             \/ StepAt({"pot_front"}, {"play", "driveby", "next"})
             \/ StepAt({"simple"}, {"stop", "leave"})
             \/ last' \in ShutdownTags
       /\ (StepAt({"rm_len", "rm_remove"}, {"rm"}) \/ StepAt({"simple"}, {"clear"})
             \/ StepAt({"drv_clear"}, {"driveby"})) => ~HeadReplaced]_<<vars, last>>

\* a play has just put its track in front of the track that was current
C21_Witness ==
    /\ last = "play_ok"
    /\ Len(queue) >= 2
    /\ queue[1].mode = "play"
    /\ queue[2].mode = "pause"

\* ---- commands without a session, failed resolution (Spec) ----
NoSessionOps == {"pause", "resume", "skip", "stop", "clear", "rm", "goto", "list"}

\* C22: a queue operation that returns while the bot is in no call returns an
\* error (the no-active-session error) and leaves the queue as it was.
C22_NoSessionIsAnError ==
    [][(chan = NoChannel /\ last' # "none" /\ StepAt({"simple", "rm_len", "rm_remove",
                                                      "goto_len", "goto_pop"}, NoSessionOps)) =>
          /\ \E op \in NoSessionOps : last' = op \o "_err_nosession"
          /\ queue' = queue]_<<vars, last>>

GotoTags == {"goto_ok", "goto_err_zero", "goto_err_empty", "goto_err_index", "goto_err_stop",
             "goto_err_stop_pop"}
RmTags == {"rm_ok", "rm_err_empty", "rm_err_index", "rm_err_stop"}

\* C11: a successful goto(k) on a queue of length n has 1 <= k <= n-1 and
\* leaves the old queue without its first k tracks, the track formerly at
\* index k playing at position 0: the queue that k skips produce.
C11_GotoDropsFirstK ==
    [][last' = "goto_ok" =>
          LET k == cmd'[1].n
              n == Len(queue)
          IN /\ 1 <= k /\ k <= n - 1
             /\ Len(queue') = n - k
             /\ queue'[1] = Track(queue[k + 1].id, "play")
             /\ \A i \in 2..(n - k) : queue'[i] = queue[i + k]
             /\ queue' = SkipTimes(queue, k)]_<<vars, last>>

\* a goto past more than one track has succeeded and has left more than one track
C11_Witness ==
    /\ last = "goto_ok"
    /\ cmd[1].n >= 2
    /\ cmd[1].len = Len(queue) + cmd[1].n
    /\ Len(queue) >= 2

\* C12: goto(k) with k = 0, with k >= n or on an empty queue returns an error
\* and leaves the queue and every track's play state as they were.
C12_GotoRejectsOutOfRange ==
    [][(last' \in GotoTags /\ (cmd'[1].n = 0 \/ cmd'[1].n >= Len(queue))) =>
          /\ last' \in {"goto_err_zero", "goto_err_empty", "goto_err_index"}
          /\ queue' = queue]_<<vars, last>>

\* goto(n) on a queue of n >= 1 tracks has been rejected
C12_Witness ==
    /\ last = "goto_err_index"
    /\ queue # <<>>
    /\ cmd[1].n = Len(queue)

\* C13: rm with at least one index outside [1, len-1] returns an error and
\* leaves the queue (membership, order, play states) as it was, also at the
\* valid indices of the same set.
C13_RmValidatesBeforeMutation ==
    [][(last' \in RmTags /\ \E i \in cmd'[1].idx : i < 1 \/ i > Len(queue) - 1) =>
          /\ last' \in {"rm_err_empty", "rm_err_index"}
          /\ queue' = queue]_<<vars, last>>

\* an index set with a valid and an invalid index has been rejected
C13_Witness ==
    /\ last = "rm_err_index"
    /\ \E i \in cmd[1].idx : 1 <= i /\ i <= Len(queue) - 1
    /\ \E i \in cmd[1].idx : i > Len(queue) - 1

\* C14: rm with an index set that contains 0 is rejected for every queue
\* length, and the track at position 0 is neither stopped nor removed.
C14_RmRejectsZero ==
    [][(last' \in RmTags /\ 0 \in cmd'[1].idx) =>
          /\ last' # "rm_ok"
          /\ Len(queue') = Len(queue)
          /\ queue # <<>> => queue'[1] = queue[1]]_<<vars, last>>

\* rm 0 together with a valid index has been rejected on a queue of three or more
C14_Witness ==
    /\ last \in RmTags
    /\ 0 \in cmd[1].idx
    /\ 1 \in cmd[1].idx
    /\ Len(queue) >= 3

\* C15: a successful rm(S) has every index of S in [1, n-1] and leaves the
\* n-|S| tracks whose positions (from 0) are not in S, in their old order,
\* the same track at position 0.
C15_RmRemovesExactlyS ==
    [][last' = "rm_ok" =>
          LET S == cmd'[1].idx
              n == Len(queue)
          IN /\ S \subseteq 1..(n - 1)
             /\ Len(queue') = n - Cardinality(S)
             /\ queue'[1] = queue[1]
             /\ \A p \in 0..(n - 1) :
                   p \notin S =>
                      queue'[p + 1 - Cardinality({x \in S : x < p})] = queue[p + 1]]_<<vars, last>>

\* two tracks, not adjacent to the end only, have been removed from a longer queue
C15_Witness ==
    /\ last = "rm_ok"
    /\ Cardinality(cmd[1].idx) = 2
    /\ cmd[1].len = Len(queue) + 2
    /\ Len(queue) >= 2

\* C16: clear on a non-empty queue leaves the track at position 0 alone in
\* the queue, its play state untouched; clear on an empty queue is an error
\* that changes nothing.
C16_ClearKeepsCurrent ==
    [][last' \in {"clear_ok", "clear_err_empty"} =>
          IF queue = <<>>
          THEN last' = "clear_err_empty" /\ queue' = queue
          ELSE last' = "clear_ok" /\ queue' = <<queue[1]>>]_<<vars, last>>

\* a queue of several tracks has been cleared
C16_Witness ==
    /\ last = "clear_ok"
    /\ cmd[1].len > 1
    /\ Len(queue) = 1

\* C17: a successful play of track t turns an empty queue into [t], t
\* playing, and a queue [c, r1..rm] into [t, c, r1..rm], t playing, c paused,
\* r1..rm as they were.
C17_PlayGoesToFront ==
    [][last' = "play_ok" =>
          LET t == cmd'[1].tracks[1]
          IN IF queue = <<>>
             THEN queue' = <<Track(t, "play")>>
             ELSE queue' = <<Track(t, "play"), Track(queue[1].id, "pause")>> \o Tail(queue)]_<<vars, last>>

\* a track has been played in front of a queue of two or more
C17_Witness ==
    /\ last = "play_ok"
    /\ cmd[1].len >= 2
    /\ Len(queue) = cmd[1].len + 1
    /\ queue[1].id = cmd[1].tracks[1]

\* C18: a queue command whose URLs all resolve appends their tracks at the
\* tail in argument order; the tracks already queued keep position and play
\* state, and on an empty queue the first new track becomes the current one.
C18_QueueAppendsInOrder ==
    [][last' = "queue_ok" =>
          LET ids == cmd'[1].tracks
              n == Len(queue)
          IN /\ Len(ids) = cmd'[1].n
             /\ Len(queue') = n + Len(ids)
             /\ \A i \in 1..n : queue'[i] = queue[i]
             /\ \A j \in 1..Len(ids) : queue'[n + j].id = ids[j]
             /\ \A j \in 2..Len(ids) : queue'[n + j].mode = "pause"
             /\ queue'[n + 1].mode = IF n = 0 THEN "play" ELSE "pause"]_<<vars, last>>

\* two tracks have been appended to a non-empty queue
C18_Witness ==
    /\ last = "queue_ok"
    /\ Len(cmd[1].tracks) = 2
    /\ cmd[1].len >= 1
    /\ Len(queue) = cmd[1].len + 2

\* C19: next with track t on a queue [c, r1..rm] yields [c, t, r1..rm]; on an
\* empty queue it yields what play yields, [t] with t playing.
C19_NextGoesSecond ==
    [][last' = "next_ok" =>
          LET t == cmd'[1].tracks[1]
          IN IF queue = <<>>
             THEN queue' = play_only_track(queue, t).q /\ queue' = <<Track(t, "play")>>
             ELSE queue' = <<queue[1], Track(t, "pause")>> \o Tail(queue)]_<<vars, last>>

\* a track has been placed behind the current one, in front of another
C19_Witness ==
    /\ last = "next_ok"
    /\ cmd[1].len >= 2
    /\ Len(queue) = cmd[1].len + 1
    /\ queue[2].id = cmd[1].tracks[1]

\* C20: next with k >= 1 URLs that all resolve is accepted and queues all k
\* tracks behind the current one, the queue empty or not.
C20_NextQueuesEveryUrl ==
    [][(cmd'[1].op = "next" /\ last' \notin {"none", "next_err_resolve"}) =>
          /\ last' = "next_ok"
          /\ Len(queue') = Len(queue) + cmd'[1].n]_<<vars, last>>

\* ---- the command parser (PSpec) ----
Parsed == cmd[1].op = "matched"

Rows == {EXPECTED_TOKENS[r] : r \in 1..Len(EXPECTED_TOKENS)}

\* one slot of a chain against one token: a keyword by its tag, Argument by a Generic
SlotMatch(slot, tok) == IF slot = "Argument" THEN IsGeneric(tok) ELSE tok.tag = slot

EndsInArguments(pat) == pat[Len(pat)] = "Arguments"

\* the chain consumes the whole sequence
Consumes(pat, toks) ==
    IF EndsInArguments(pat)
    THEN /\ Len(toks) >= Len(pat)
         /\ \A i \in 1..(Len(pat) - 1) : SlotMatch(pat[i], toks[i])
         /\ \A i \in Len(pat)..Len(toks) : IsGeneric(toks[i])
    ELSE /\ Len(toks) = Len(pat)
         /\ \A i \in 1..Len(pat) : SlotMatch(pat[i], toks[i])

\* a chain without Arguments matches a proper prefix slot by slot
PrefixWithLeftover(pat, toks) ==
    /\ ~EndsInArguments(pat)
    /\ Len(toks) > Len(pat)
    /\ \A i \in 1..Len(pat) : SlotMatch(pat[i], toks[i])

IsKeywordSlot(slot) == slot \notin {"Argument", "Arguments"}

\* C24: match_tokens accepts a token sequence exactly when some chain of the
\* table consumes all of it; a chain that matches a prefix only does not keep
\* a chain that consumes the whole sequence from being selected.
C24_AcceptsIffSomeChainConsumesAll ==
    Parsed => ((last = "match_ok") <=> (\E pat \in Rows : Consumes(pat, cmd[1].tokens)))

\* play search with two words has been accepted, after the chain Play Argument was tried
C24_Witness ==
    /\ last = "match_ok"
    /\ Len(cmd[1].tokens) = 4
    /\ cmd[1].tokens[1].tag = "Play"
    /\ cmd[1].tokens[2].tag = "Search"

\* C25: a token sequence that a chain of the table consumes resolves to the
\* keyword tags of that chain and to its Generic tokens in input order.
C25_ResolvesToChainAndArgs ==
    Parsed =>
       \A pat \in Rows :
          Consumes(pat, cmd[1].tokens) =>
             LET keys == SelectSeq(pat, IsKeywordSlot)
             IN /\ last = "match_ok"
                /\ cmd[1].matched = keys
                /\ cmd[1].args = SubSeq(cmd[1].tokens, Len(keys) + 1, Len(cmd[1].tokens))
                /\ \A i \in 1..Len(cmd[1].args) : IsGeneric(cmd[1].args[i])

\* queue with two different words has been resolved
C25_Witness ==
    /\ last = "match_ok"
    /\ cmd[1].matched = <<"Queue">>
    /\ Len(cmd[1].args) = 2
    /\ cmd[1].args[1].text # cmd[1].args[2].text

\* C26: a rejected (non-empty) token sequence gets the extra-arguments error
\* exactly when a chain without Arguments matches a proper prefix of it, and
\* the no-valid-chain error otherwise.
C26_ExtraArgumentsIffPrefix ==
    (Parsed /\ last \in {"match_err_extra", "match_err_novalid"}) =>
       ((last = "match_err_extra") <=> (\E pat \in Rows : PrefixWithLeftover(pat, cmd[1].tokens)))

\* play with two words has been rejected for its extra argument
C26_Witness ==
    /\ last = "match_err_extra"
    /\ Len(cmd[1].tokens) = 3
    /\ cmd[1].tokens[1].tag = "Play"
    /\ IsGeneric(cmd[1].tokens[3])

\* C27: driveby search followed by k >= 1 words is accepted for every k and
\* resolves to Driveby Search with the k words in order.
C27_DrivebySearchTakesAllWords ==
    (/\ Parsed
     /\ Len(cmd[1].tokens) >= 3
     /\ cmd[1].tokens[1].tag = "Driveby"
     /\ cmd[1].tokens[2].tag = "Search"
     /\ \A i \in 3..Len(cmd[1].tokens) : IsGeneric(cmd[1].tokens[i])) =>
        /\ last = "match_ok"
        /\ cmd[1].matched = <<"Driveby", "Search">>
        /\ cmd[1].args = SubSeq(cmd[1].tokens, 3, Len(cmd[1].tokens))

\* C28: a message that is empty or made of whitespace only gets the no-tokens
\* error, and a message with a word in it never gets it.
C28_NoTokensIffNoWord ==
    Parsed =>
       ((last = "match_err_no_tokens") <=>
           (\A i \in 1..Len(cmd[1].input) : cmd[1].input[i] \in {Blank, OddSpace}))

\* ---- joining a voice channel (JSpec) ----
JoinedChannel == cmd[1].op = "join_channel" /\ last \in {"join_channel_ok", "join_channel_err"}

CrowdedDone ==
    cmd[1].op = "join_most_crowded" /\ last \in {"crowded_ok", "crowded_err_join", "crowded_err_nobody"}

\* the first channel of the enumeration whose member count is the highest
FirstMax(order, n) ==
    order[CHOOSE i \in 1..Len(order) :
             /\ \A j \in 1..Len(order) : n[order[j]] <= n[order[i]]
             /\ \A j \in 1..(i - 1) : n[order[j]] < n[order[i]]]

\* C29: join_channel for the channel the call is already connected to issues
\* no transport join and leaves the connection as it is; for another channel
\* it moves the connection there.
C29_JoinSameChannelIsNoOp ==
    JoinedChannel =>
       /\ (cmd[1].before = cmd[1].target) => (~cmd[1].transport /\ chan = cmd[1].before)
       /\ (cmd[1].before # cmd[1].target /\ last = "join_channel_ok") => chan = cmd[1].target

\* C30: join_most_crowded joins the first channel of the enumeration among
\* those with the highest member count; when every voice channel has 0
\* members it returns an error and joins nothing.
C30_JoinsFirstMostCrowded ==
    CrowdedDone =>
       IF \A ch \in JsChannels : cmd[1].counts[ch] = 0
       THEN /\ last = "crowded_err_nobody"
            /\ ~cmd[1].transport
            /\ chan = cmd[1].before
       ELSE /\ last # "crowded_err_nobody"
            /\ cmd[1].transport
            /\ cmd[1].target = FirstMax(cmd[1].order, cmd[1].counts)
            /\ last = "crowded_ok" => chan = cmd[1].target

\* two channels tie for the highest count, and the one enumerated first, not
\* the lower-numbered one, has been joined
C30_Witness ==
    /\ CrowdedDone
    /\ last = "crowded_ok"
    /\ \E a, b \in JsChannels :
          /\ a > b
          /\ cmd[1].counts[a] = cmd[1].counts[b]
          /\ cmd[1].counts[a] > 0
          /\ \A ch \in JsChannels : cmd[1].counts[ch] <= cmd[1].counts[a]
          /\ chan = a
          /\ cmd[1].before # a

\* ---- commands against the driver and the callbacks (Spec) ----
\* the handler of command c takes the step
StepOf(c) == cmd'[c] # cmd[c]

\* C32: process_next inserts its track without a panic, and the track is in
\* the queue afterwards, also when the queue it found has run empty meanwhile.
C32_NextInsertsInRange ==
    [][\A c \in Cmds :
          (cmd[c].pc = "insert_next" /\ StepOf(c)) =>
              /\ last' = "next_ok"
              /\ cmd[c].tracks[1] \in IdSet(queue')]_<<vars, last>>

\* C33: the tracks a successful process_rm removes are exactly those that were
\* at the requested indices when the indices were validated.
C33_RmRemovesValidatedTracks ==
    [][\A c \in Cmds :
          (cmd[c].pc = "rm_remove" /\ StepOf(c) /\ last' = "rm_ok") =>
              IdSet(queue) \ IdSet(queue') = {cmd[c].seen[i + 1] : i \in cmd[c].idx}]_<<vars, last>>

\* C34: after a successful goto(k) the queue is not empty and its head is the
\* track that was at index k when the index was validated.
C34_GotoLandsOnValidatedTrack ==
    [][\A c \in Cmds :
          (cmd[c].pc = "goto_pop" /\ StepOf(c) /\ last' = "goto_ok") =>
              /\ queue' # <<>>
              /\ queue'[1].id = cmd[c].seen[cmd[c].n + 1]]_<<vars, last>>

\* C35: the disconnect handler hangs up only when the channel the bot is in at
\* that moment has no other member.
C35_HangupOnlyWhenAlone ==
    [][(dcpc = "hangup" /\ dcpc' = "idle" /\ chan # NoChannel) =>
          Members(chan) <= 1]_<<vars, last>>

LeftTags == {"leave_ok", "dc_hangup", "te_leave", "expiry_shutdown"}

\* C36: when the leave command, the disconnect handler or a shutdown has left
\* the call, no idle countdown is outstanding.
C36_NoCountdownWhenLeft ==
    (chan = NoChannel /\ last \in LeftTags) => Live(task) = {}

FailedStart == {"err_resolve", "err_summoner", "err_nobody"}

\* C37: a play or driveby that fails in its resolution or for want of a
\* channel to join leaves the countdown and the track-end policy as it found
\* them.
C37_FailedPlayKeepsSupervisor ==
    [][\A c \in Cmds :
          (/\ cmd[c].op \in {"play", "driveby"}
           /\ StepOf(c)
           /\ \E r \in FailedStart : last' = cmd[c].op \o "_" \o r) =>
              /\ idle_callback_action' = cmd[c].sup.action
              /\ Live(task') = cmd[c].sup.live]_<<vars, last>>

\* C38: a queue command resolves all its URLs before anything else: while it
\* resolves it joins nothing, enqueues nothing and leaves the policy alone, and
\* a failed resolution ends it with none of its tracks in the queue.
C38_QueueAllOrNothing ==
    [][\A c \in Cmds :
          (cmd[c].fn = "queue" /\ cmd[c].pc = "resolve" /\ StepOf(c)) =>
              /\ chan' = chan
              /\ queue' = queue
              /\ idle_callback_action' = idle_callback_action
              /\ \/ last' = "queue_err_resolve"
                 \/ cmd'[c].pc \in {"resolve", "join_summoner"}
              /\ \A i \in 1..Len(cmd[c].tracks) : cmd[c].tracks[i] \notin IdSet(queue')]_<<vars, last>>

\* a queue command has failed in its resolution while a driveby track is
\* current: the policy is still LEAVE and the queue holds that track only
C38_Witness ==
    /\ last = "queue_err_resolve"
    /\ chan # NoChannel
    /\ idle_callback_action = "LEAVE"
    /\ Len(queue) = 1

\* ---- whose end the LEAVE policy answers (LSpec) ----
\* C31: the end event of a track that a play started, handled under the LEAVE
\* policy of a later driveby, never shuts down the session while the track of
\* that driveby is the current track and plays.
C31_LeaveOnlyForDrivebyTrack ==
    [][(/\ last' \in {"te_leave", "te_leave_panic"}
        /\ pendingTE # <<>>
        /\ cmd[1].by[Head(pendingTE)] = "play") =>
          ~(/\ queue # <<>>
            /\ Head(queue).mode = "play"
            /\ cmd[1].by[Head(queue).id] = "driveby")]_<<vars, last>>

\* ---- the order of the locks (DSpec) ----
DsLocks == {"P", "C", "H"}

\* p waits for a lock that q holds
WaitsFor(p, q) == p # q /\ \E L \in DsLocks : DsNextOp(p) = L \o "+" /\ Holds(q, L)

\* the participants a chain of waits leads to from those of S
RECURSIVE WaitChain(_, _)
WaitChain(S, n) ==
    IF n = 0 THEN S
    ELSE WaitChain(S \cup {q \in DsProcs : \E r \in S : WaitsFor(r, q)}, n - 1)

WaitCycle ==
    \E p \in DsProcs :
       p \in WaitChain({q \in DsProcs : WaitsFor(p, q)}, NumCmds + 3)

\* C39: whoever holds the call lock or the countdown-handle lock holds the
\* player lock, nobody waits for the player lock while holding one of the
\* other two, and no participants wait for each other in a circle.
C39_NoDeadlock ==
    /\ \A p \in DsProcs : (Holds(p, "C") \/ Holds(p, "H")) => Holds(p, "P")
    /\ \A p \in DsProcs : DsNextOp(p) = "P+" => (~Holds(p, "C") /\ ~Holds(p, "H"))
    /\ ~WaitCycle

\* the disconnect handler and the track-end handler wait for the player lock
\* while a command holds it together with the call lock
C39_Witness ==
    /\ \E c \in Cmds : Holds(c, "P") /\ Holds(c, "C")
    /\ DsNextOp(DsDisconnect) = "P+"
    /\ DsNextOp(DsTrackEnd) = "P+"
    /\ DsNextOp(DsCountdown) = "P+"

\* ---- the arms of Parser::process (PSpec) ----
\* C40: every command that match_tokens accepts is taken by an arm of
\* Parser::process of its own, never by the fallback arm; every chain of the
\* table, its argument slots stripped, is the pattern of an arm.
C40_EveryCommandHasAnArm ==
    /\ cmd[1].op = "dispatched" => (cmd[1].arm # 0 /\ ProcessArms[cmd[1].arm] = cmd[1].matched)
    /\ \A pat \in Rows : Dispatch(SelectSeq(pat, IsKeywordSlot)) # 0

\* driveby search with one word has reached its arm
C40_Witness ==
    /\ cmd[1].op = "dispatched"
    /\ last = "dispatch_arm"
    /\ cmd[1].matched = <<"Driveby", "Search">>
    /\ Len(cmd[1].args) = 1

====
